---- MODULE Spec2Model ----
(***************************************************************************)
(* Model of the resilient API client of Spacetraders-Zero                  *)
(* (src/src/api/client.py, class SpaceTradersClient): the circuit breaker,  *)
(* the response cache, the adaptive rate limiter, the retry loop of         *)
(* _make_request, the raw make_request, the batch path and the memoized     *)
(* get_system_info.                                                         *)
(*                                                                          *)
(* Time is an integer number of milliseconds (time.time() is `now`);        *)
(* time.sleep(d) is `now' = now + d`.  The program's constants keep the     *)
(* unit of the source (seconds) and are converted with Sec.                 *)
(* requests_per_second is kept in thousandths of a request per second.      *)
(***************************************************************************)
EXTENDS Integers, Sequences, FiniteSets, TLC

\* ------------------------------------------------------------ constants
requests_per_second_init == 2
request_window == 1
timestamps_maxlen == 10
burst_limit == 10
response_times_maxlen == 50
rate_adjustment_threshold == 1
rate_adjustment_interval == 60
error_threshold == 5
reset_timeout == 60
success_threshold == 3
cache_ttl == 60
max_retries == 3
base_delay == 2
error_history_window == 300
min_rate == 1
max_rate == 10

\* ------------------------------------------------------------ bounds
\* per specification: calls of _make_request begun, and the time (s) up to
\* which the caller may pause between calls
RetryCalls == 2
BreakerCalls == 5
BreakerTime == 150
MaxRaw == 1
RawCalls == 3
RawTime == 700
MaxBatch == 3
BatchCalls == 2
ThreadCalls == 3
SaveCalls == 3
CycleCalls == 3
OpenCalls == 3
MaxLoops == 2
CycleTime == 40
TimerFirings == 2
ThreadTime == 3
CacheCalls == 3
CacheTime == 70
MemoCalls == 3
BurstCalls == 28
RateCalls == 4
ThrottleCalls == 2
RateTime == 130
\* seconds -> milliseconds
Sec(n) == n * 1000

None == "None"
\* last_error_time = None (no error recorded yet)
NoTime == -1
Max(a, b) == IF a >= b THEN a ELSE b
Min(a, b) == IF a <= b THEN a ELSE b
Last(s) == s[Len(s)]

\* ------------------------------------------------------------ inputs
\* Query parameters of a descriptor: none, or one set of them.
ParamSets == {None, "limit=20"}
Methods == {"GET", "POST"}
\* Response bodies (response.json()) are "p1", "p2" and "empty", the JSON
\* object {}; "test" is {"data": "test"}.
\* Validator headers of a response, <<ETag, Last-Modified>>; None: absent.
Validators == {<<None, None>>, <<"etag1", None>>, <<"etag1", "lm1">>}
\* Retry-After header of a 429 answer: absent, or a number of seconds.
RetryAfters == {None, "1"}
\* int(header)
IntOf(h) == CASE h = "1" -> 1 [] h = "2" -> 2 [] h = "5" -> 5
\* The threads that call the client: the GUI thread and the automation
\* loop (threading.Thread(target=self._run_loop)).
Threads == {"gui", "loop"}
\* What the transport answers: a status code, or no response at all
\* (requests.exceptions.Timeout / ConnectionError).
Statuses == {"200", "304", "404", "429", "500", "timeout"}

VARIABLES
    now,
    \* rate limiter
    requests_per_second, request_timestamps, min_request_interval,
    response_times, last_rate_adjustment,
    \* circuit breaker and error bookkeeping
    circuit_state, error_count, success_count, last_error_time,
    error_history, last_error_reset,
    \* cache
    cache,
    \* batch session
    async_session,
    \* the _make_request call in progress: its arguments and locals
    pc, method, cache_key, headers, attempt, result,
    \* history of the call in progress
    allowed, fresh, stale, tries, resps,
    \* history: what the last step did, number of raw calls made
    ev, calls, rawCalls, batch_result,
    \* history: _update_circuit_state(False) calls in a row; successes
    \* recorded since the breaker last entered HALF_OPEN
    failRun, hoSucc,
    \* functools.lru_cache of get_system_info; the symbol of the
    \* get_system_info call in progress (None: a direct _make_request);
    \* history: _make_request calls made by get_system_info per symbol since
    \* the last clear_caches
    lru, via, under,
    \* history: every timestamp _wait_for_rate_limit recorded (the last
    \* IssuedLen of them); did its last call evaluate the adaptive rule, and
    \* when was the rule last evaluated
    issued, evald, lastEval,
    \* history: the transport calls made so far and how many of them failed
    sent, failed,
    \* request_count of the client; the outcome of the trader's last
    \* run_cycle and its cycle_count
    request_count, cycle_status, cycle_count,
    \* AutomatedTrader: running, self.thread (0: None), where each loop
    \* thread is in _run_loop, and where the caller of start()/stop() is;
    \* history: the threads that were alive when stop() was called, and
    \* those of them that began a cycle afterwards
    running, thread, lpc, app_pc, halted, late,
    \* the batch in progress: one slot per descriptor, "inflight" or the
    \* outcome of its transport call
    batch_slots, batches,
    \* two threads inside _wait_for_rate_limit: where each is, and the time
    \* at which its sleeps end
    tpc, twake,
    \* StateManager: the rows of table agent_state in insertion order and
    \* last_hash; history: the state the application saved last and what
    \* its last get_latest_state returned; the timer thread inside
    \* _periodic_save and the state it has read; history: the number of
    \* save_state calls of the application and of timer firings
    rows, last_hash, saved, loaded, timer_pc, timer_latest, saves, firings,
    \* is a Timer pending; history: has stop() returned
    timer_armed, stopped

rlVars == <<requests_per_second, request_timestamps, min_request_interval,
            response_times, last_rate_adjustment>>
cbVars == <<circuit_state, error_count, success_count, last_error_time>>
errVars == <<error_history, last_error_reset>>
callVars == <<pc, method, cache_key, headers, attempt, result,
              allowed, fresh, stale, tries, resps>>
memoVars == <<lru, via, under>>
tallyVars == <<sent, failed>>
histVars == <<issued, evald, lastEval, tallyVars>>
loopVars == <<running, thread, lpc, app_pc, halted, late>>
cycVars == <<request_count, cycle_status, cycle_count, loopVars>>
thrVars == <<tpc, twake>>
dbVars == <<rows, last_hash, saved, loaded, timer_pc, timer_latest, saves,
           firings, timer_armed, stopped>>
sideVars == <<batch_slots, batches, thrVars, cycVars, dbVars, cycVars>>
vars == <<now, rlVars, cbVars, errVars, cache, async_session, callVars,
          ev, calls, rawCalls, batch_result, failRun, hoSucc, memoVars,
          histVars, sideVars>>

\* ------------------------------------------------------------ breaker
Breaker == [circuit_state |-> circuit_state, error_count |-> error_count,
            success_count |-> success_count,
            last_error_time |-> last_error_time]

\* mutation: the cool-down test is >= instead of >
CheckCircuitBreaker_Early(b, current_time) ==
    IF b.circuit_state = "OPEN"
    THEN IF current_time - b.last_error_time >= Sec(reset_timeout)
         THEN [allow |-> TRUE,
               b |-> [b EXCEPT !.circuit_state = "HALF_OPEN",
                               !.success_count = 0]]
         ELSE [allow |-> FALSE, b |-> b]
    ELSE [allow |-> TRUE, b |-> b]

\* mutation: success_count is not reset on entering HALF_OPEN
CheckCircuitBreaker_NoReset(b, current_time) ==
    IF b.circuit_state = "OPEN"
    THEN IF current_time - b.last_error_time > Sec(reset_timeout)
         THEN [allow |-> TRUE, b |-> [b EXCEPT !.circuit_state = "HALF_OPEN"]]
         ELSE [allow |-> FALSE, b |-> b]
    ELSE [allow |-> TRUE, b |-> b]

\* mutation: an OPEN breaker refuses whatever time has passed
CheckCircuitBreaker_Stuck(b, current_time) ==
    IF b.circuit_state = "OPEN"
    THEN [allow |-> FALSE, b |-> b]
    ELSE [allow |-> TRUE, b |-> b]

\* _check_circuit_breaker: the returned flag and the state it leaves.
CheckCircuitBreaker(b, current_time) ==
    IF b.circuit_state = "OPEN"
    THEN IF current_time - b.last_error_time > Sec(reset_timeout)
         THEN [allow |-> TRUE,
               b |-> [b EXCEPT !.circuit_state = "HALF_OPEN",
                               !.success_count = 0]]
         ELSE [allow |-> FALSE, b |-> b]
    ELSE [allow |-> TRUE, b |-> b]

\* mutation: the breaker opens only above error_threshold
UpdateCircuitState_Late(b, success, current_time) ==
    IF success
    THEN IF b.circuit_state = "HALF_OPEN"
         THEN LET sc == b.success_count + 1 IN
              IF sc >= success_threshold
              THEN [b EXCEPT !.success_count = sc,
                             !.circuit_state = "CLOSED",
                             !.error_count = 0]
              ELSE [b EXCEPT !.success_count = sc]
         ELSE [b EXCEPT !.error_count = Max(0, b.error_count - 1)]
    ELSE LET ec == b.error_count + 1 IN
         IF ec > error_threshold /\ b.circuit_state # "OPEN"
         THEN [b EXCEPT !.error_count = ec,
                        !.last_error_time = current_time,
                        !.circuit_state = "OPEN"]
         ELSE [b EXCEPT !.error_count = ec,
                        !.last_error_time = current_time]

\* mutation: closing the breaker keeps the error counter
UpdateCircuitState_KeepErrors(b, success, current_time) ==
    IF success
    THEN IF b.circuit_state = "HALF_OPEN"
         THEN LET sc == b.success_count + 1 IN
              IF sc >= success_threshold
              THEN [b EXCEPT !.success_count = sc,
                             !.circuit_state = "CLOSED"]
              ELSE [b EXCEPT !.success_count = sc]
         ELSE [b EXCEPT !.error_count = Max(0, b.error_count - 1)]
    ELSE LET ec == b.error_count + 1 IN
         IF ec >= error_threshold /\ b.circuit_state # "OPEN"
         THEN [b EXCEPT !.error_count = ec,
                        !.last_error_time = current_time,
                        !.circuit_state = "OPEN"]
         ELSE [b EXCEPT !.error_count = ec,
                        !.last_error_time = current_time]

\* mutation: a success in CLOSED leaves the error counter alone
UpdateCircuitState_NoHeal(b, success, current_time) ==
    IF success
    THEN IF b.circuit_state = "HALF_OPEN"
         THEN LET sc == b.success_count + 1 IN
              IF sc >= success_threshold
              THEN [b EXCEPT !.success_count = sc,
                             !.circuit_state = "CLOSED",
                             !.error_count = 0]
              ELSE [b EXCEPT !.success_count = sc]
         ELSE b
    ELSE LET ec == b.error_count + 1 IN
         IF ec >= error_threshold /\ b.circuit_state # "OPEN"
         THEN [b EXCEPT !.error_count = ec,
                        !.last_error_time = current_time,
                        !.circuit_state = "OPEN"]
         ELSE [b EXCEPT !.error_count = ec,
                        !.last_error_time = current_time]

\* _update_circuit_state(success, endpoint)
UpdateCircuitState(b, success, current_time) ==
    IF success
    THEN IF b.circuit_state = "HALF_OPEN"
         THEN LET sc == b.success_count + 1 IN
              IF sc >= success_threshold
              THEN [b EXCEPT !.success_count = sc,
                             !.circuit_state = "CLOSED",
                             !.error_count = 0]
              ELSE [b EXCEPT !.success_count = sc]
         ELSE [b EXCEPT !.error_count = Max(0, b.error_count - 1)]
    ELSE LET ec == b.error_count + 1 IN
         IF ec >= error_threshold /\ b.circuit_state # "OPEN"
         THEN [b EXCEPT !.error_count = ec,
                        !.last_error_time = current_time,
                        !.circuit_state = "OPEN"]
         ELSE [b EXCEPT !.error_count = ec,
                        !.last_error_time = current_time]

\* ------------------------------------------------------------ cache
\* _get_cache_key: endpoint alone without parameters, else endpoint?params
GetCacheKey(endpoint, params) ==
    IF params = None THEN <<endpoint>> ELSE <<endpoint, params>>

\* mutation: no cached body counts as a hit
Truthy_Never(data) == FALSE

\* Python truth value of a response body: the empty object is false.
Truthy(data) == data # None /\ data # "empty"

\* _get_cached_response: the entry's data when it is younger than cache_ttl
GetCachedResponse(c, k, current_time) ==
    IF k \in DOMAIN c /\ current_time - c[k].timestamp < Sec(cache_ttl)
    THEN c[k].data
    ELSE None

\* _update_cache / CacheEntry.__init__
UpdateCache(c, k, data, etag, last_modified, current_time) ==
    [x \in DOMAIN c \cup {k} |->
        IF x = k
        THEN [data |-> data, etag |-> etag, last_modified |-> last_modified,
              timestamp |-> current_time]
        ELSE c[x]]

\* Conditional GET headers of _make_request (cached.etag / .last_modified
\* are attached when set).
ConditionalHeaders(c, k) ==
    IF k \in DOMAIN c
    THEN [if_none_match |-> c[k].etag,
          if_modified_since |-> c[k].last_modified]
    ELSE [if_none_match |-> None, if_modified_since |-> None]

\* mutation: the 304 branch always answers with the fixed body
NotModifiedResult_Fixed(c, k) == "test"

\* The 304 branch of _make_request: the cached data, or the fixed body
\* {"data": "test"} when the cache holds nothing for the key.
NotModifiedResult(c, k) ==
    IF k \in DOMAIN c THEN c[k].data ELSE "test"

\* ------------------------------------------------------------ rate limiter
RateLimiter == [requests_per_second |-> requests_per_second,
                request_timestamps |-> request_timestamps,
                min_request_interval |-> min_request_interval,
                response_times |-> response_times,
                last_rate_adjustment |-> last_rate_adjustment]

RECURSIVE Sum(_)
Sum(s) == IF s = <<>> THEN 0 ELSE Head(s) + Sum(Tail(s))

\* deque(maxlen=n).append
DequeAppend(s, x, maxlen) ==
    IF Len(s) >= maxlen THEN Append(Tail(s), x) ELSE Append(s, x)

\* "Clean up old timestamps"
RECURSIVE TrimTimestamps(_, _)
TrimTimestamps(ts, current_time) ==
    IF ts # <<>> /\ current_time - Head(ts) > Sec(request_window)
    THEN TrimTimestamps(Tail(ts), current_time)
    ELSE ts

\* mutation: the shrunk rate is floored a thousand times too low
AdjustedRate_LowFloor(rate, times) ==
    IF Sum(times) > Sec(rate_adjustment_threshold) * Len(times)
    THEN Max(min_rate, (rate * 7) \div 10)
    ELSE IF 2 * Sum(times) < Sec(rate_adjustment_threshold) * Len(times)
         THEN Min(Sec(max_rate), (rate * 11) \div 10)
         ELSE rate

\* The adaptive rule: the new rate, in thousandths of a request per second.
AdjustedRate(rate, times) ==
    IF Sum(times) > Sec(rate_adjustment_threshold) * Len(times)
    THEN Max(Sec(min_rate), (rate * 7) \div 10)
    ELSE IF 2 * Sum(times) < Sec(rate_adjustment_threshold) * Len(times)
         THEN Min(Sec(max_rate), (rate * 11) \div 10)
         ELSE rate

\* Is the adaptive rule evaluated by this call of _wait_for_rate_limit?
RateEvaluated(rl, current_time) ==
    /\ \/ current_time - rl.last_rate_adjustment > Sec(rate_adjustment_interval)
       \/ rl.last_rate_adjustment = 0
    /\ Len(rl.response_times) > 0

\* mutation: the minimum-interval check is skipped
WaitForRateLimit_NoGap(rl, current_time) ==
    LET ts == TrimTimestamps(rl.request_timestamps, current_time)
        newRate == IF RateEvaluated(rl, current_time)
                   THEN AdjustedRate(rl.requests_per_second, rl.response_times)
                   ELSE rl.requests_per_second
        changed == newRate # rl.requests_per_second
        interval == IF changed THEN (1000 * 1000) \div newRate
                    ELSE rl.min_request_interval
        burstWait == IF Len(ts) >= burst_limit
                     THEN Max(0, Head(ts) + Sec(request_window) - current_time)
                     ELSE 0
        t == current_time + burstWait
    IN  [rl |-> [requests_per_second |-> newRate,
                 request_timestamps |-> DequeAppend(ts, t, timestamps_maxlen),
                 min_request_interval |-> interval,
                 response_times |-> rl.response_times,
                 last_rate_adjustment |->
                     IF changed THEN current_time
                     ELSE rl.last_rate_adjustment],
         t |-> t]

\* _wait_for_rate_limit, called at current_time: the limiter it leaves and
\* the time at which it returns (after its sleeps).
WaitForRateLimit(rl, current_time) ==
    LET ts == TrimTimestamps(rl.request_timestamps, current_time)
        newRate == IF RateEvaluated(rl, current_time)
                   THEN AdjustedRate(rl.requests_per_second, rl.response_times)
                   ELSE rl.requests_per_second
        changed == newRate # rl.requests_per_second
        interval == IF changed THEN (1000 * 1000) \div newRate
                    ELSE rl.min_request_interval
        burstWait == IF Len(ts) >= burst_limit
                     THEN Max(0, Head(ts) + Sec(request_window) - current_time)
                     ELSE 0
        elapsed == IF ts # <<>> THEN current_time - Last(ts) ELSE 0
        gapWait == IF ts # <<>> /\ elapsed < interval
                   THEN interval - elapsed ELSE 0
        t == current_time + burstWait + gapWait
    IN  [rl |-> [requests_per_second |-> newRate,
                 request_timestamps |-> DequeAppend(ts, t, timestamps_maxlen),
                 min_request_interval |-> interval,
                 response_times |-> rl.response_times,
                 last_rate_adjustment |->
                     IF changed THEN current_time
                     ELSE rl.last_rate_adjustment],
         t |-> t]

\* ------------------------------------------------------------ initial state
NoEvent == [op |-> "init", allow |-> "none", record |-> "none",
            transport |-> 0, status |-> "none", payload |-> None,
            was |-> "none"]
NoResult == [kind |-> "none"]
Ok(data) == [kind |-> "ok", data |-> data]
Err(e) == [kind |-> "error", error |-> e]

\* SpaceTradersClient.__init__, constructed at time 1000 ms
Init ==
    /\ now = 1000
    /\ requests_per_second = Sec(requests_per_second_init)
    /\ request_timestamps = <<>>
    /\ min_request_interval = (1000 * 1000) \div Sec(requests_per_second_init)
    /\ response_times = <<>>
    /\ last_rate_adjustment = 1000
    /\ circuit_state = "CLOSED"
    /\ error_count = 0
    /\ success_count = 0
    /\ last_error_time = NoTime
    /\ error_history = <<>>
    /\ last_error_reset = 1000
    /\ cache = << >>
    /\ async_session = None
    /\ pc = "idle"
    /\ method = None
    /\ cache_key = <<>>
    /\ headers = [if_none_match |-> None, if_modified_since |-> None]
    /\ attempt = 0
    /\ result = NoResult
    /\ allowed = FALSE
    /\ fresh = None
    /\ stale = FALSE
    /\ tries = 0
    /\ resps = <<>>
    /\ ev = NoEvent
    /\ calls = 0
    /\ rawCalls = 0
    /\ batch_result = <<>>
    /\ failRun = 0
    /\ hoSucc = 0
    /\ lru = << >>
    /\ via = None
    /\ under = << >>
    /\ issued = <<>>
    /\ evald = FALSE
    /\ lastEval = NoTime
    /\ batch_slots = <<>>
    /\ batches = 0
    /\ tpc = [th \in Threads |-> "idle"]
    /\ twake = [th \in Threads |-> 0]
    /\ rows = <<>>
    /\ last_hash = None
    /\ saved = None
    /\ loaded = None
    /\ timer_pc = "waiting"
    /\ timer_latest = None
    /\ saves = 0
    /\ firings = 0
    /\ sent = 0
    /\ failed = 0
    /\ request_count = 0
    /\ cycle_status = "none"
    /\ cycle_count = 0
    /\ running = FALSE
    /\ thread = 0
    /\ lpc = [i \in 1..MaxLoops |-> "none"]
    /\ app_pc = "idle"
    /\ halted = {}
    /\ late = {}
    /\ timer_armed = TRUE
    /\ stopped = FALSE

SetBreaker(b) ==
    /\ circuit_state' = b.circuit_state
    /\ error_count' = b.error_count
    /\ success_count' = b.success_count
    /\ last_error_time' = b.last_error_time

SetRateLimiter(rl) ==
    /\ requests_per_second' = rl.requests_per_second
    /\ request_timestamps' = rl.request_timestamps
    /\ min_request_interval' = rl.min_request_interval
    /\ response_times' = rl.response_times
    /\ last_rate_adjustment' = rl.last_rate_adjustment

Idle == pc \in {"idle", "done"}

\* length of the history of recorded timestamps
IssuedLen == burst_limit + 1

\* History of the timestamps recorded by _wait_for_rate_limit: t is
\* appended; of the older ones the history keeps those inside the trailing
\* window [t - request_window, t], and always the one recorded last.
RecordIssued(h, t) ==
    LET kept == SelectSeq(h, LAMBDA x : x >= t - Sec(request_window)) IN
    IF h # <<>> /\ kept = <<>> THEN <<Last(h), t>>
    ELSE DequeAppend(kept, t, IssuedLen)

\* mutation: off by one, the last failure sleeps instead of raising
AttemptsRemain_NoLast(a) == a < max_retries

\* "if attempt < max_retries - 1": the failure is followed by a backoff
\* sleep instead of the final RuntimeError
AttemptsRemain(a) == a < max_retries - 1

\* mutation: the loop ends after its first iteration
LoopContinues_Never(a) == FALSE

\* mutation: the loop never ends
LoopContinues_Always(a) == TRUE

\* "for attempt in range(max_retries)": is there a next iteration?
LoopContinues(a) == a + 1 < max_retries

\* ------------------------------------------------------------ actions
\* Time passes while the caller is between two calls.
Tick(d) ==
    /\ Idle
    /\ now' = now + d
    /\ ev' = [NoEvent EXCEPT !.op = "tick"]
    /\ UNCHANGED <<rlVars, cbVars, errVars, cache, async_session, callVars,
                   calls, rawCalls, batch_result, failRun, hoSucc, memoVars,
                   histVars, sideVars>>

\* f"systems/{system_symbol}"
SystemEndpoint(symbol) == "systems/" \o symbol

\* mutation: nothing is memoized
Memoized_Never(memo, v, r) == memo

\* lru_cache: the memo after the wrapped call ended with result r (v is
\* the symbol of the get_system_info call, None for a direct call).
Memoized(memo, v, r) ==
    IF v # None /\ r.kind = "ok"
    THEN [x \in DOMAIN memo \cup {v} |-> IF x = v THEN r.data ELSE memo[x]]
    ELSE memo

\* _make_request, from its entry to the retry loop: breaker check, cache
\* lookup for a GET, conditional headers.  v: see Memoized.
EnterRequest(m, endpoint, params, v) ==
    LET k == GetCacheKey(endpoint, params)
        chk == CheckCircuitBreaker(Breaker, now)
        cached == IF m = "GET" THEN GetCachedResponse(cache, k, now) ELSE None
    IN
    /\ Idle
    /\ SetBreaker(chk.b)
    /\ method' = m
    /\ cache_key' = k
    /\ allowed' = chk.allow
    /\ fresh' = IF m = "GET" /\ k \in DOMAIN cache
                   /\ now - cache[k].timestamp < Sec(cache_ttl)
                THEN cache[k].data ELSE None
    /\ stale' = (m = "GET" /\ k \in DOMAIN cache
                   /\ now - cache[k].timestamp >= Sec(cache_ttl))
    /\ attempt' = 0
    /\ tries' = 0
    /\ resps' = <<>>
    /\ ev' = [NoEvent EXCEPT !.op = "begin", !.was = circuit_state,
                             !.allow = IF chk.allow THEN "true" ELSE "false"]
    /\ hoSucc' = IF chk.b.circuit_state # circuit_state THEN 0 ELSE hoSucc
    /\ IF ~chk.allow
       THEN /\ pc' = "done"
            /\ result' = Err("CircuitOpen")
            /\ headers' = ConditionalHeaders(<< >>, k)
       ELSE IF Truthy(cached)
       THEN /\ pc' = "done"
            /\ result' = Ok(cached)
            /\ headers' = ConditionalHeaders(<< >>, k)
       ELSE /\ pc' = "attempt"
            /\ result' = NoResult
            /\ headers' = IF m = "GET" THEN ConditionalHeaders(cache, k)
                          ELSE ConditionalHeaders(<< >>, k)
    /\ calls' = calls + 1
    /\ via' = v
    /\ lru' = Memoized(lru, v, result')
    /\ UNCHANGED <<now, rlVars, errVars, cache, async_session, rawCalls,
                   batch_result, failRun, histVars, sideVars>>

\* A direct call of _make_request(method, endpoint, params).
BeginRequest(m, endpoint, params) ==
    /\ EnterRequest(m, endpoint, params, None)
    /\ UNCHANGED under

\* get_system_info(system_symbol), decorated with lru_cache: a memoized
\* result is returned without running the body; otherwise the body calls
\* _make_request("GET", "systems/<symbol>") and its return value (not an
\* exception) is memoized.  get_waypoint_info is memoized the same way.
GetSystemInfo(symbol) ==
    IF symbol \in DOMAIN lru
    THEN /\ Idle
         /\ pc' = "done"
         /\ result' = Ok(lru[symbol])
         /\ via' = symbol
         /\ tries' = 0
         /\ resps' = <<>>
         /\ ev' = [NoEvent EXCEPT !.op = "memo"]
         /\ UNCHANGED <<now, rlVars, cbVars, errVars, cache, async_session,
                        method, cache_key, headers, attempt, allowed, fresh,
                        stale, calls, rawCalls, batch_result, failRun, hoSucc,
                        lru, under, histVars, sideVars>>
    ELSE /\ EnterRequest("GET", SystemEndpoint(symbol), None, symbol)
         /\ under' = [x \in DOMAIN under \cup {symbol} |->
                         IF x # symbol THEN under[x]
                         ELSE IF x \in DOMAIN under THEN under[x] + 1
                         ELSE 1]

\* One iteration of the retry loop of _make_request: rate-limiter wait,
\* transport call, and the handling of what the transport answered,
\* including the sleep that follows it.
Attempt(status, duration, payload, etag, last_modified, retry_after, jitter) ==
    LET w == WaitForRateLimit(RateLimiter, now)
        \* time.time() after the transport call
        t == w.t + duration
        rl == IF status = "timeout" THEN w.rl
              ELSE [w.rl EXCEPT !.response_times =
                       DequeAppend(@, duration, response_times_maxlen)]
        max_delay == Sec(base_delay) * (2 ^ attempt)
        delay == max_delay + (max_delay * jitter) \div 100
        base == [NoEvent EXCEPT !.op = "attempt", !.allow = "true",
                                !.transport = 1, !.status = status,
                                !.was = circuit_state]
    IN
    /\ pc = "attempt"
    /\ SetRateLimiter(rl)
    /\ issued' = RecordIssued(issued, w.t)
    /\ evald' = RateEvaluated(RateLimiter, now)
    /\ lastEval' = IF RateEvaluated(RateLimiter, now) THEN now ELSE lastEval
    /\ sent' = sent + 1
    /\ failed' = IF status \in {"200", "304", "429"} THEN failed
                  ELSE failed + 1
    /\ tries' = tries + 1
    /\ resps' = Append(resps, status)
    /\ CASE status = "429" ->
              /\ now' = t + (IF retry_after = None THEN Sec(base_delay)
                             ELSE Sec(IntOf(retry_after)))
              /\ attempt' = attempt + 1
              /\ IF LoopContinues(attempt)
                 THEN pc' = "attempt" /\ result' = NoResult
                 ELSE pc' = "done" /\ result' = Err("MaxRetriesNoError")
              /\ ev' = base
              /\ UNCHANGED <<cbVars, cache, failRun, hoSucc>>
         [] status = "304" ->
              /\ now' = t
              /\ pc' = "done"
              /\ result' = Ok(NotModifiedResult(cache, cache_key))
              /\ ev' = base
              /\ UNCHANGED <<attempt, cbVars, cache, failRun, hoSucc>>
         [] status = "200" ->
              /\ now' = t
              /\ cache' = IF method = "GET"
                          THEN UpdateCache(cache, cache_key, payload, etag,
                                           last_modified, t)
                          ELSE cache
              /\ SetBreaker(UpdateCircuitState(Breaker, TRUE, t))
              /\ pc' = "done"
              /\ result' = Ok(payload)
              /\ ev' = [base EXCEPT !.record = "success", !.payload = payload]
              /\ failRun' = 0
              /\ hoSucc' = IF circuit_state = "HALF_OPEN" THEN hoSucc + 1
                           ELSE hoSucc
              /\ UNCHANGED attempt
         [] OTHER ->
              /\ SetBreaker(UpdateCircuitState(Breaker, FALSE, t))
              /\ ev' = [base EXCEPT !.record = "failure"]
              /\ failRun' = failRun + 1
              /\ UNCHANGED hoSucc
              /\ IF AttemptsRemain(attempt)
                 THEN /\ now' = t + delay
                      /\ attempt' = attempt + 1
                      /\ IF LoopContinues(attempt)
                         THEN pc' = "attempt" /\ result' = NoResult
                         ELSE pc' = "done" /\ result' = Err("MaxRetriesNoError")
                 ELSE /\ now' = t
                      /\ pc' = "done"
                      /\ result' = Err("RetriesExhausted")
                      /\ UNCHANGED attempt
              /\ UNCHANGED cache
    /\ lru' = Memoized(lru, via, result')
    /\ UNCHANGED <<errVars, async_session, method, cache_key, headers,
                   allowed, fresh, stale, calls, rawCalls, batch_result,
                   via, under, sideVars>>

\* _handle_error: the error bookkeeping of the raw make_request.  It
\* writes error_count and last_error_time, the fields the breaker reads.
HandleError(b, history, reset, endpoint, current_time) ==
    LET h1 == Append(history, <<current_time, endpoint>>)
        h2 == SelectSeq(h1, LAMBDA x :
                  x[1] > current_time - Sec(error_history_window))
        expired == current_time - reset > Sec(error_history_window)
    IN  [b |-> [b EXCEPT !.error_count =
                             IF expired THEN Len(h2) ELSE b.error_count + 1,
                         !.last_error_time = current_time],
         error_history |-> h2,
         last_error_reset |-> IF expired THEN current_time ELSE reset]

\* make_request: the raw request.  No breaker check, no rate limiter, no
\* cache; any failure goes through _handle_error and is re-raised.
RawMakeRequest(endpoint, status, duration) ==
    LET t == now + duration
        h == HandleError(Breaker, error_history, last_error_reset, endpoint, t)
    IN
    /\ Idle
    /\ rawCalls' = rawCalls + 1
    /\ now' = t
    /\ ev' = [NoEvent EXCEPT !.op = "raw", !.transport = 1,
                             !.status = status]
    /\ IF status = "200"
       THEN UNCHANGED <<cbVars, errVars, failRun>>
       ELSE /\ failRun' = 0
            /\ SetBreaker(h.b)
            /\ error_history' = h.error_history
            /\ last_error_reset' = h.last_error_reset
    /\ sent' = sent + 1
    /\ failed' = IF status = "200" THEN failed ELSE failed + 1
    /\ UNCHANGED <<rlVars, cache, async_session, callVars, calls,
                   batch_result, hoSucc, memoVars, issued, evald, lastEval,
                   sideVars>>

\* clear_caches
ClearCaches ==
    /\ Idle
    /\ cache # << >> \/ lru # << >>
    /\ cache' = << >>
    /\ lru' = << >>
    /\ under' = << >>
    /\ ev' = [NoEvent EXCEPT !.op = "clear"]
    /\ UNCHANGED <<now, rlVars, cbVars, errVars, async_session, callVars,
                   calls, rawCalls, batch_result, failRun, hoSucc, via,
                   histVars, sideVars>>

\* _batch_get: the results of asyncio.gather with the failed items (None)
\* filtered out.
BatchResults(outcomes) == SelectSeq(outcomes, LAMBDA r : r # "fail")

\* _init_async_session: a session is created unless there is one
InitAsyncSession(session) == IF session = None THEN "session" ELSE session

\* mutation: the session is left open
CloseAsyncSession_Leak(session) == session

\* the finally clause of _batch_get / _close_async_session: an existing
\* session is closed and async_session set to None
CloseAsyncSession(session) == None

\* the locals of the _make_request call, which the batch path leaves alone
callRest == <<method, cache_key, headers, attempt, allowed, fresh, stale,
              tries, resps>>

\* transport calls of the batch that have not completed
InFlight ==
    Cardinality({i \in 1..Len(batch_slots) : batch_slots[i] = "inflight"})

\* batch_get(endpoints) with n descriptors, up to the await of
\* asyncio.gather: the session is created and every _async_get task runs
\* to its session.get, so all n transport calls are issued at once on the
\* aiohttp session: no breaker check, no rate limiter, no cache.
BatchStart(n) ==
    /\ Idle
    /\ pc' = "batch"
    /\ result' = NoResult
    /\ async_session' = InitAsyncSession(async_session)
    /\ batch_slots' = [i \in 1..n |-> "inflight"]
    /\ batches' = batches + 1
    /\ ev' = [NoEvent EXCEPT !.op = "batch", !.transport = n]
    /\ sent' = sent + n
    /\ UNCHANGED <<now, rlVars, cbVars, errVars, cache, callRest, calls,
                   rawCalls, batch_result, failRun, hoSucc, memoVars,
                   issued, evald, lastEval, failed, thrVars, dbVars,
                   cycVars>>

\* One transport call of the batch completes: _async_get returns the
\* body, or None ("fail") after any exception.
BatchComplete(i, outcome) ==
    /\ pc = "batch"
    /\ i \in 1..Len(batch_slots)
    /\ batch_slots[i] = "inflight"
    /\ batch_slots' = [batch_slots EXCEPT ![i] = outcome]
    /\ ev' = [NoEvent EXCEPT !.op = "batch_item", !.payload = outcome]
    /\ failed' = IF outcome = "fail" THEN failed + 1 ELSE failed
    /\ UNCHANGED <<now, rlVars, cbVars, errVars, cache, async_session,
                   callVars, calls, rawCalls, batch_result, batches, failRun,
                   hoSucc, memoVars, issued, evald, lastEval, sent, thrVars,
                   dbVars, cycVars>>

\* asyncio.gather returns: _batch_get filters the results, closes the
\* session in its finally clause, and batch_get returns the list.
BatchEnd ==
    /\ pc = "batch"
    /\ InFlight = 0
    /\ pc' = "done"
    /\ batch_result' = BatchResults(batch_slots)
    /\ result' = Ok("batch")
    /\ async_session' = CloseAsyncSession(async_session)
    /\ ev' = [NoEvent EXCEPT !.op = "batch_end"]
    /\ UNCHANGED <<now, rlVars, cbVars, errVars, cache, callRest, calls,
                   rawCalls, batch_slots, batches, failRun, hoSucc, memoVars,
                   histVars, thrVars, dbVars, cycVars>>

\* batch_get with a descriptor that is not an (endpoint, params) pair: the
\* session is created, the for loop raises while unpacking, the finally
\* clause closes the session and the exception leaves batch_get.
BatchAbort ==
    /\ Idle
    /\ pc' = "done"
    /\ result' = Err("BatchError")
    /\ async_session' = CloseAsyncSession(InitAsyncSession(async_session))
    /\ batch_slots' = <<>>
    /\ batches' = batches + 1
    /\ ev' = [NoEvent EXCEPT !.op = "batch_abort"]
    /\ UNCHANGED <<now, rlVars, cbVars, errVars, cache, callRest, calls,
                   rawCalls, batch_result, failRun, hoSucc, memoVars,
                   histVars, thrVars, dbVars, cycVars>>

\* ------------------------------------------------------------ specifications
\* The retry loop: every kind of answer, back-to-back calls.
NextRetry ==
    \/ \E m \in Methods : calls < RetryCalls /\ BeginRequest(m, "my/ships", None)
    \/ \E s \in Statuses, p \in {"p1", "empty"} :
          Attempt(s, 100, p, None, None, None, 0)

SpecRetry == Init /\ [][NextRetry]_vars

\* The retry loop under rate-limited answers, with and without a
\* Retry-After header, next to successes and failures.
NextThrottle ==
    \/ calls < ThrottleCalls /\ BeginRequest("POST", "my/ships", None)
    \/ \E s \in {"200", "429", "500"}, ra \in RetryAfters :
          Attempt(s, 100, "p1", None, None, ra, 0)

SpecThrottle == Init /\ [][NextThrottle]_vars

\* The breaker: failing and succeeding calls, and pauses of the caller of
\* exactly reset_timeout and just above it.
NextBreaker ==
    \/ calls < BreakerCalls /\ BeginRequest("POST", "my/ships", None)
    \/ \E s \in {"200", "500"} : Attempt(s, 100, "p1", None, None, None, 0)
    \/ \E d \in {Sec(reset_timeout), Sec(reset_timeout) + 1} :
          now + d <= Sec(BreakerTime) /\ Tick(d)

SpecBreaker == Init /\ [][NextBreaker]_vars

\* _make_request next to the raw make_request with its error bookkeeping
\* (error_history_window).
NextRaw ==
    \/ calls < RawCalls /\ BeginRequest("POST", "my/ships", None)
    \/ \E s \in {"200", "500"} : Attempt(s, 100, "p1", None, None, None, 0)
    \/ \E d \in {Sec(error_history_window)} :
          now + d <= Sec(RawTime) /\ Tick(d)
    \/ \E s \in {"200", "500"} :
          rawCalls < MaxRaw /\ RawMakeRequest("my/agent", s, 100)

SpecRaw == Init /\ [][NextRaw]_vars

\* ------------------------------------------------------------ threads
\* The client is shared by the GUI thread and the automation loop
\* (threading.Thread(target=self._run_loop)); it holds no lock, so the
\* threads interleave wherever one of them sleeps or waits for the network.

\* Thread th calls _make_request("POST", ...) with the breaker closed and
\* runs _wait_for_rate_limit up to its sleeps: it reads the clock, trims
\* the window, applies the adaptive rule and works out how long to sleep.
ThreadWait(th) ==
    LET w == WaitForRateLimit(RateLimiter, now) IN
    /\ Idle
    /\ tpc[th] = "idle"
    /\ circuit_state = "CLOSED"
    /\ SetRateLimiter([w.rl EXCEPT !.request_timestamps =
                          TrimTimestamps(request_timestamps, now)])
    /\ evald' = RateEvaluated(RateLimiter, now)
    /\ lastEval' = IF RateEvaluated(RateLimiter, now) THEN now ELSE lastEval
    /\ tpc' = [tpc EXCEPT ![th] = "sleeping"]
    /\ twake' = [twake EXCEPT ![th] = w.t]
    /\ calls' = calls + 1
    /\ ev' = [NoEvent EXCEPT !.op = "thread_wait", !.allow = "true",
                             !.was = circuit_state]
    /\ UNCHANGED <<now, cbVars, errVars, cache, async_session, callVars,
                   rawCalls, batch_result, failRun, hoSucc, memoVars, issued,
                   tallyVars,
                   batch_slots, batches, dbVars, cycVars>>

\* Thread th wakes from its sleeps, appends time.time() to
\* request_timestamps and starts its transport call.
ThreadRecord(th) ==
    LET t == Max(now, twake[th]) IN
    /\ tpc[th] = "sleeping"
    /\ now' = t
    /\ request_timestamps' =
           DequeAppend(request_timestamps, t, timestamps_maxlen)
    /\ issued' = RecordIssued(issued, t)
    /\ sent' = sent + 1
    /\ tpc' = [tpc EXCEPT ![th] = "transport"]
    /\ twake' = [twake EXCEPT ![th] = t]
    /\ ev' = [NoEvent EXCEPT !.op = "thread_record", !.transport = 1]
    /\ UNCHANGED <<requests_per_second, min_request_interval,
                   response_times, last_rate_adjustment, cbVars, errVars,
                   cache, async_session, callVars, calls, rawCalls,
                   batch_result, failRun, hoSucc, memoVars, evald, lastEval,
                   failed,
                   batch_slots, batches, dbVars, cycVars>>

\* The transport call of thread th, started at twake[th], is answered 200
\* after d ms or later: the duration is recorded, the success reported
\* to the breaker, and _make_request returns.
ThreadRespond(th, d) ==
    LET t == Max(now, twake[th] + d) IN
    /\ tpc[th] = "transport"
    /\ now' = t
    /\ response_times' =
           DequeAppend(response_times, t - twake[th], response_times_maxlen)
    /\ SetBreaker(UpdateCircuitState(Breaker, TRUE, t))
    /\ tpc' = [tpc EXCEPT ![th] = "idle"]
    /\ ev' = [NoEvent EXCEPT !.op = "thread_respond", !.status = "200",
                             !.record = "success"]
    /\ UNCHANGED <<requests_per_second, request_timestamps,
                   min_request_interval, last_rate_adjustment, errVars,
                   cache, async_session, callVars, calls, rawCalls,
                   batch_result, failRun, hoSucc, memoVars, histVars, twake,
                   batch_slots, batches, dbVars, cycVars>>

\* ---------------------------------------------------------- persistence
\* Agent states.  "A" and "B" are dictionaries of strings and numbers,
\* "E" is {}, "T" is a state holding a tuple, as market_trends does
\* ((time.time(), price)), and "L" is the same state with a list in
\* place of the tuple.
States == {"A", "B", "E", "T", "L"}

\* json.dumps(state): a tuple is written as a JSON array
JsonDumps(state) ==
    CASE state = "A" -> "{a}"
      [] state = "B" -> "{b}"
      [] state = "E" -> "{}"
      [] state = "T" -> "{[t]}"
      [] state = "L" -> "{[t]}"

\* json.loads(text): a JSON array is read as a list
JsonLoads(text) ==
    CASE text = "{a}" -> "A"
      [] text = "{b}" -> "B"
      [] text = "{}" -> "E"
      [] text = "{[t]}" -> "L"

\* _compute_hash: SHA-256 of the JSON text with sorted keys
ComputeHash(state) == "sha256:" \o JsonDumps(state)

\* mutation: no state is taken for unchanged
Unchanged_Never(state_hash, last) == FALSE

\* "if state_hash == self.last_hash"
Unchanged(state_hash, last) == state_hash = last

\* save_state(state) at time t, under the lock: the table and last_hash
\* afterwards
SaveState(table, last, state, t) ==
    LET state_hash == ComputeHash(state) IN
    IF Unchanged(state_hash, last)
    THEN [rows |-> table, last_hash |-> last, inserted |-> FALSE]
    ELSE [rows |-> Append(table, [state_data |-> JsonDumps(state),
                                  state_hash |-> state_hash,
                                  timestamp |-> t]),
          last_hash |-> state_hash, inserted |-> TRUE]

\* the rows that ORDER BY timestamp DESC LIMIT 1 may return
LatestRows(table) ==
    {i \in 1..Len(table) :
        \A j \in 1..Len(table) : table[j].timestamp <= table[i].timestamp}

\* get_latest_state when the query returns row i, or no row (i = 0)
GetLatestState(table, i) ==
    IF i = 0 THEN None ELSE JsonLoads(table[i].state_data)

\* which row the query of get_latest_state may return
Fetched(table) == IF table = <<>> THEN {0} ELSE LatestRows(table)

\* _start_periodic_save: a pending timer is cancelled and a new one is
\* created and started
StartPeriodicSave(armed) == TRUE

\* The application calls save_state(state); the call takes d ms.
AppSaveState(state, d) ==
    LET r == SaveState(rows, last_hash, state, now + d) IN
    /\ Idle
    /\ now' = now + d
    /\ rows' = r.rows
    /\ last_hash' = r.last_hash
    /\ saved' = state
    /\ saves' = saves + 1
    /\ ev' = [NoEvent EXCEPT !.op = "save", !.payload = state,
                             !.status = IF r.inserted THEN "inserted"
                                        ELSE "skipped"]
    /\ UNCHANGED <<rlVars, cbVars, errVars, cache, async_session, callVars,
                   calls, rawCalls, batch_result, failRun, hoSucc, memoVars,
                   histVars, batch_slots, batches, thrVars, cycVars, loaded, timer_pc,
                   timer_latest, firings, timer_armed, stopped>>

\* The application calls get_latest_state().
AppGetLatestState ==
    /\ Idle
    /\ \E i \in Fetched(rows) : loaded' = GetLatestState(rows, i)
    /\ ev' = [NoEvent EXCEPT !.op = "load"]
    /\ UNCHANGED <<now, rlVars, cbVars, errVars, cache, async_session,
                   callVars, calls, rawCalls, batch_result, failRun, hoSucc,
                   memoVars, histVars, batch_slots, batches, thrVars, cycVars, rows,
                   last_hash, saved, timer_pc, timer_latest, saves, firings,
                   timer_armed, stopped>>

\* The timer fires: _periodic_save calls save_if_changed, which reads the
\* latest state without holding the lock.
TimerRead ==
    /\ timer_pc = "waiting"
    /\ timer_armed
    /\ timer_armed' = FALSE
    /\ \E i \in Fetched(rows) : timer_latest' = GetLatestState(rows, i)
    /\ timer_pc' = "read"
    /\ firings' = firings + 1
    /\ ev' = [NoEvent EXCEPT !.op = "timer_read"]
    /\ UNCHANGED <<now, rlVars, cbVars, errVars, cache, async_session,
                   callVars, calls, rawCalls, batch_result, failRun, hoSucc,
                   memoVars, histVars, batch_slots, batches, thrVars, cycVars, rows,
                   last_hash, saved, loaded, saves, stopped>>

\* save_if_changed passes what it read, or {} when it read None, to
\* save_state; _periodic_save then starts the next timer.
TimerSave(d) ==
    LET state == IF timer_latest = None THEN "E" ELSE timer_latest
        r == SaveState(rows, last_hash, state, now + d)
    IN
    /\ timer_pc = "read"
    /\ now' = now + d
    /\ rows' = r.rows
    /\ last_hash' = r.last_hash
    /\ timer_pc' = "waiting"
    /\ timer_latest' = None
    /\ timer_armed' = StartPeriodicSave(timer_armed)
    /\ ev' = [NoEvent EXCEPT !.op = "timer_save", !.payload = state,
                             !.status = IF r.inserted THEN "inserted"
                                        ELSE "skipped"]
    /\ UNCHANGED <<rlVars, cbVars, errVars, cache, async_session, callVars,
                   calls, rawCalls, batch_result, failRun, hoSucc, memoVars,
                   histVars, batch_slots, batches, thrVars, cycVars, saved, loaded,
                   saves, firings, stopped>>

\* stop(): a timer held in self.timer is cancelled, which has no effect
\* on one that has fired, and self.timer is set to None.
Stop ==
    /\ ~stopped
    /\ timer_armed' = FALSE
    /\ stopped' = TRUE
    /\ ev' = [NoEvent EXCEPT !.op = "stop"]
    /\ UNCHANGED <<now, rlVars, cbVars, errVars, cache, async_session,
                   callVars, calls, rawCalls, batch_result, failRun, hoSucc,
                   memoVars, histVars, batch_slots, batches, thrVars, cycVars, rows,
                   last_hash, saved, loaded, timer_pc, timer_latest, saves,
                   firings>>

\* ----------------------------------------------------------- the trader
\* "error_rate = error_count / request_count * 100 if request_count > 0
\* else 0" and "if error_rate > 20"
HighErrorRate(errors, requests) ==
    requests > 0 /\ errors * 100 > 20 * requests

\* run_cycle of a running trader, up to its first API call: the error
\* rate is checked and the cycle either returns paused_high_errors or
\* goes on to its API calls (get_contracts first), which are
\* _make_request calls.
RunCycle ==
    /\ Idle
    /\ cycle_status' = IF HighErrorRate(error_count, request_count)
                       THEN "paused_high_errors" ELSE "started"
    /\ cycle_count' = IF HighErrorRate(error_count, request_count)
                      THEN cycle_count ELSE cycle_count + 1
    /\ ev' = [NoEvent EXCEPT !.op = "cycle"]
    /\ UNCHANGED <<now, rlVars, cbVars, errVars, cache, async_session,
                   callVars, calls, rawCalls, batch_result, failRun, hoSucc,
                   memoVars, histVars, batch_slots, batches, thrVars, dbVars,
                   request_count, loopVars>>

\* everything but the trader's thread bookkeeping
clientVars == <<now, rlVars, cbVars, errVars, cache, async_session, callVars,
                calls, rawCalls, batch_result, failRun, hoSucc, memoVars,
                histVars, batch_slots, batches, thrVars, dbVars,
                request_count, cycle_status, cycle_count>>

\* self.thread and self.thread.is_alive()
IsAlive(t) == t # 0 /\ lpc[t] \in {"top", "cycle", "pause"}

\* threading.Thread(target=self._run_loop).start(): the next thread
Spawn ==
    LET t == CHOOSE i \in 1..MaxLoops :
                 lpc[i] = "none" /\ \A j \in 1..(i - 1) : lpc[j] # "none"
    IN  /\ thread' = t
        /\ lpc' = [lpc EXCEPT ![t] = "top"]

\* start(): nothing when already running; else running is set and, with
\* an old thread alive, join(timeout=1.0) is entered; without one the new
\* thread is started.
Start ==
    /\ app_pc = "idle"
    /\ \E i \in 1..MaxLoops : lpc[i] = "none"
    /\ ev' = [NoEvent EXCEPT !.op = "start"]
    /\ IF running
       THEN UNCHANGED loopVars
       ELSE /\ running' = TRUE
            /\ IF IsAlive(thread)
               THEN app_pc' = "start_join" /\ UNCHANGED <<thread, lpc>>
               ELSE app_pc' = "idle" /\ Spawn
            /\ UNCHANGED <<halted, late>>
    /\ UNCHANGED clientVars

\* join(timeout=1.0) in start() returns, the old thread having ended or
\* the timeout having passed while it is inside a cycle or a sleep; the
\* new thread is started.
StartJoined ==
    /\ app_pc = "start_join"
    /\ ~IsAlive(thread) \/ lpc[thread] \in {"cycle", "pause"}
    /\ app_pc' = "idle"
    /\ Spawn
    /\ ev' = [NoEvent EXCEPT !.op = "start_joined"]
    /\ UNCHANGED <<running, halted, late>>
    /\ UNCHANGED clientVars

\* stop(): nothing when not running; else running is cleared and, with a
\* thread alive, join(timeout=5.0) is entered.
StopTrader ==
    /\ app_pc = "idle"
    /\ ev' = [NoEvent EXCEPT !.op = "stop_trader"]
    /\ IF ~running
       THEN UNCHANGED loopVars
       ELSE /\ running' = FALSE
            /\ halted' = halted \cup {i \in 1..MaxLoops : IsAlive(i)}
            /\ app_pc' = IF IsAlive(thread) THEN "stop_join" ELSE "idle"
            /\ UNCHANGED <<thread, lpc, late>>
    /\ UNCHANGED clientVars

\* join(timeout=5.0) in stop() returns, the thread having ended or the
\* timeout having passed while it is inside a cycle or a sleep ("Agent
\* thread did not stop cleanly"); stop() returns.
StopJoined ==
    /\ app_pc = "stop_join"
    /\ ~IsAlive(thread) \/ lpc[thread] \in {"cycle", "pause"}
    /\ app_pc' = "idle"
    /\ ev' = [NoEvent EXCEPT !.op = "stop_joined"]
    /\ UNCHANGED <<running, thread, lpc, halted, late>>
    /\ UNCHANGED clientVars

\* _run_loop of thread i at "while self.running": the next cycle begins,
\* or the thread ends.
LoopTop(i) ==
    /\ lpc[i] = "top"
    /\ lpc' = [lpc EXCEPT ![i] = IF running THEN "cycle" ELSE "dead"]
    /\ late' = IF running /\ i \in halted THEN late \cup {i} ELSE late
    /\ ev' = [NoEvent EXCEPT !.op = "loop_top"]
    /\ UNCHANGED <<running, thread, app_pc, halted>>
    /\ UNCHANGED clientVars

\* run_cycle of thread i returns or raises: "if not self.running: break",
\* else time.sleep(5) or time.sleep(30).
LoopCycleEnd(i) ==
    /\ lpc[i] = "cycle"
    /\ lpc' = [lpc EXCEPT ![i] = IF running THEN "pause" ELSE "dead"]
    /\ ev' = [NoEvent EXCEPT !.op = "loop_cycle_end"]
    /\ UNCHANGED <<running, thread, app_pc, halted, late>>
    /\ UNCHANGED clientVars

\* the sleep of thread i ends
LoopWake(i) ==
    /\ lpc[i] = "pause"
    /\ lpc' = [lpc EXCEPT ![i] = "top"]
    /\ ev' = [NoEvent EXCEPT !.op = "loop_wake"]
    /\ UNCHANGED <<running, thread, app_pc, halted, late>>
    /\ UNCHANGED clientVars

\* The batch path.
NextBatch ==
    \/ \E n \in 1..MaxBatch : batches < BatchCalls /\ BatchStart(n)
    \/ \E i \in 1..MaxBatch : \E o \in {"p1", "p2", "fail"} :
          BatchComplete(i, o)
    \/ BatchEnd
    \/ batches < BatchCalls /\ BatchAbort

SpecBatch == Init /\ [][NextBatch]_vars

\* Two threads on one client, each making POST requests answered 200;
\* the callers pause only while no request is under way.
NextThreads ==
    \/ \E d \in {500} :
          /\ \A th \in Threads : tpc[th] = "idle"
          /\ now + d <= Sec(ThreadTime)
          /\ Tick(d)
    \/ \E th \in Threads : calls < ThreadCalls /\ ThreadWait(th)
    \/ \E th \in Threads : ThreadRecord(th)
    \/ \E th \in Threads : \E d \in {100} : ThreadRespond(th, d)

SpecThreads == Init /\ [][NextThreads]_vars

\* The state store used by the application alone: the timer does not fire.
NextStore ==
    \/ \E state \in {"A", "B", "T", "L"} : \E d \in {1, 5} :
          saves < SaveCalls /\ AppSaveState(state, d)
    \/ AppGetLatestState

SpecStore == Init /\ [][NextStore]_vars

\* The state store with the periodic-save timer running beside the
\* application, which saves states of strings and numbers.
NextTimer ==
    \/ \E state \in {"A", "B"} : \E d \in {1, 5} :
          saves < SaveCalls /\ AppSaveState(state, d)
    \/ AppGetLatestState
    \/ firings < TimerFirings /\ TimerRead
    \/ \E d \in {1, 5} : TimerSave(d)

SpecTimer == Init /\ [][NextTimer]_vars

\* The state store with its timer, and the application stopping it.
NextStop ==
    \/ \E state \in {"A", "B"} : \E d \in {1, 5} :
          saves < SaveCalls /\ AppSaveState(state, d)
    \/ firings < TimerFirings /\ TimerRead
    \/ \E d \in {1, 5} : TimerSave(d)
    \/ Stop

SpecStop == Init /\ [][NextStop]_vars

\* The trader's cycles: each checks the error rate and, unless paused,
\* makes API calls that succeed or fail; the loop sleeps 5 s between
\* cycles.
NextCycle ==
    \/ cycle_count < CycleCalls /\ RunCycle
    \/ /\ cycle_status = "started"
       /\ calls < cycle_count
       /\ BeginRequest("POST", "my/contracts", None)
    \/ \E s \in {"200", "500"} : Attempt(s, 100, "p1", None, None, None, 0)
    \/ \E d \in {Sec(5)} :
          /\ calls = cycle_count
          /\ now + d <= Sec(CycleTime)
          /\ Tick(d)

SpecCycle == Init /\ [][NextCycle]_vars

\* The trader started and stopped by the GUI, and its loop threads.
NextLoop ==
    \/ Start
    \/ StartJoined
    \/ StopTrader
    \/ StopJoined
    \/ \E i \in 1..MaxLoops : LoopTop(i)
    \/ \E i \in 1..MaxLoops : LoopCycleEnd(i)
    \/ \E i \in 1..MaxLoops : LoopWake(i)

SpecLoop == Init /\ [][NextLoop]_vars

\* Recovery of the breaker.  Calls fail only while the breaker is CLOSED;
\* once it is OPEN every answer is a 200, the caller lets the cool-down
\* pass and goes on calling until the breaker has closed.
NextRecover ==
    \/ /\ IF circuit_state = "CLOSED" THEN calls < OpenCalls
          ELSE IF circuit_state = "OPEN" /\ now - last_error_time
                                              <= Sec(reset_timeout)
               THEN calls < OpenCalls + 1
               ELSE calls < OpenCalls + 1 + success_threshold
       /\ BeginRequest("POST", "my/ships", None)
    \/ Attempt("200", 100, "p1", None, None, None, 0)
    \/ /\ circuit_state = "CLOSED"
       /\ Attempt("500", 100, "p1", None, None, None, 0)
    \/ \E d \in {Sec(reset_timeout) + 1, 2 * Sec(reset_timeout)} :
          /\ circuit_state = "OPEN"
          /\ now - last_error_time <= Sec(reset_timeout)
          /\ Tick(d)

\* The clock advances, the caller keeps calling and the transport keeps
\* answering.
SpecRecover == Init /\ [][NextRecover]_vars /\ WF_vars(NextRecover)

\* The cache: GETs of two keys, fresh and expired entries, validators,
\* 304 answers, clear_caches.
NextCache ==
    \/ \E p \in ParamSets :
          calls < CacheCalls /\ BeginRequest("GET", "my/ships", p)
    \/ \E s \in {"200", "304"}, p \in {"empty", "p1"}, v \in Validators :
          Attempt(s, 100, p, v[1], v[2], None, 0)
    \/ \E d \in {Sec(30)} : now + d <= Sec(CacheTime) /\ Tick(d)
    \/ ClearCaches

SpecCache == Init /\ [][NextCache]_vars

\* The memoized get_system_info next to direct GETs of the same endpoint,
\* failing and succeeding, and clear_caches.
NextMemo ==
    \/ calls < MemoCalls /\ GetSystemInfo("X1")
    \/ calls < MemoCalls /\ BeginRequest("GET", SystemEndpoint("X1"), None)
    \/ \E s \in {"200", "500"} : Attempt(s, 100, "p1", None, None, None, 0)
    \/ ClearCaches

SpecMemo == Init /\ [][NextMemo]_vars

\* The caller has paused after each of its calls so far.
Spaced ==
    /\ ev.op = "attempt"
    /\ IF Len(issued) < 2 THEN TRUE
       ELSE issued[Len(issued)] - issued[Len(issued) - 1]
               > Sec(request_window)

\* The server answers fast until it turns slow: a fast answer (below
\* rate_adjustment_threshold) comes only while no slow one has come.
Degrading(duration) ==
    \/ duration >= Sec(rate_adjustment_threshold)
    \/ \A i \in 1..Len(response_times) :
          response_times[i] < Sec(rate_adjustment_threshold)

\* The rate limiter over a long run: a caller that first makes calls a
\* rate_adjustment_interval apart and then calls back to back, against a
\* server that answers in 0.1 s and later in 30 s; long enough for the
\* adaptive rule to raise the rate to max_rate, for burst_limit timestamps
\* to be issued at that rate, and for the rate to fall back to min_rate.
NextBurst ==
    \/ calls < BurstCalls /\ BeginRequest("POST", "my/ships", None)
    \/ \E d \in {100, Sec(30)} :
          Degrading(d) /\ Attempt("200", d, "p1", None, None, None, 0)
    \/ \E d \in {Sec(rate_adjustment_interval)} : Spaced /\ Tick(d)

SpecBurst == Init /\ [][NextBurst]_vars

\* The rate limiter over a few calls: answers in 0.1 s, 0.7 s and 3 s,
\* calls back to back or after a pause of 0.2 s, 2 s or a
\* rate_adjustment_interval.
NextRate ==
    \/ calls < RateCalls /\ BeginRequest("POST", "my/ships", None)
    \/ \E d \in {100, 700, Sec(3)} :
          Attempt("200", d, "p1", None, None, None, 0)
    \/ \E d \in {200, Sec(2), Sec(rate_adjustment_interval)} :
          now + d <= Sec(RateTime) /\ ev.op = "attempt" /\ Tick(d)

SpecRate == Init /\ [][NextRate]_vars

\* ------------------------------------------------------------ claims
AllAre(s, x) == \A i \in 1..Len(s) : s[i] = x
Repeat(x, n) == [i \in 1..n |-> x]

C2_FatalNotRetried ==
    \A i \in 1..Len(resps) :
        resps[i] = "404"
        => /\ i = Len(resps)
           /\ pc = "done"
           /\ result.kind = "error"
           /\ ev.record = "failure"

CoolingDown ==
    /\ circuit_state = "OPEN"
    /\ now - last_error_time <= Sec(reset_timeout)

\* C4: while the breaker is OPEN and at most reset_timeout has elapsed
\* since the last recorded error, a _make_request call is refused at once:
\* the check returns false, the call raises the circuit-open error, no
\* transport call, no rate-limiter wait, no retry, and the breaker stays
\* OPEN.
C4_OpenFailsFast ==
    [][(CoolingDown /\ ev'.op = "begin")
          => /\ ev'.allow = "false"
             /\ pc' = "done"
             /\ result' = Err("CircuitOpen")
             /\ ev'.transport = 0
             /\ tries' = 0
             /\ now' = now
             /\ UNCHANGED rlVars
             /\ circuit_state' = "OPEN"]_vars

\* a call refused exactly reset_timeout after the last error
C4_Witness ==
    /\ ev.op = "begin"
    /\ ev.allow = "false"
    /\ result = Err("CircuitOpen")
    /\ circuit_state = "OPEN"
    /\ now - last_error_time = Sec(reset_timeout)

\* C5: with the breaker OPEN and more than reset_timeout elapsed since
\* last_error_time, the next check returns true, moves the breaker to
\* HALF_OPEN and resets the success counter.
C5_HalfOpensAfterTimeout ==
    [][(circuit_state = "OPEN"
        /\ now - last_error_time > Sec(reset_timeout)
        /\ ev'.op = "begin")
          => /\ ev'.allow = "true"
             /\ circuit_state' = "HALF_OPEN"
             /\ success_count' = 0]_vars

\* the second time the breaker half-opens, after a trial success and a
\* trial failure
C5_Witness ==
    /\ ev.op = "begin"
    /\ ev.was = "OPEN"
    /\ ev.allow = "true"
    /\ circuit_state = "HALF_OPEN"
    /\ success_count = 0
    /\ error_count > error_threshold

\* C6: in HALF_OPEN the success that brings the number of successes
\* recorded since the breaker half-opened to success_threshold closes the
\* breaker and zeroes the error counter; with fewer it stays HALF_OPEN.
C6_ClosesAfterSuccesses ==
    [][(circuit_state = "HALF_OPEN" /\ ev'.record = "success")
          => IF hoSucc' >= success_threshold
             THEN circuit_state' = "CLOSED" /\ error_count' = 0
             ELSE circuit_state' = "HALF_OPEN"]_vars

C6_Witness ==
    /\ ev.record = "success"
    /\ ev.was = "HALF_OPEN"
    /\ hoSucc = success_threshold
    /\ circuit_state = "CLOSED"
    /\ error_count = 0

\* C7: in every reachable HALF_OPEN state a single
\* _update_circuit_state(False) moves the breaker back to OPEN.
C7_HalfOpenFailureReopens ==
    [][(circuit_state = "HALF_OPEN" /\ ev'.record = "failure")
          => circuit_state' = "OPEN"]_vars

\* C8: every transport call is preceded, in the operation that issues it,
\* by a breaker check that returned true, and none is issued while the
\* breaker is OPEN and cooling down.
C8_NoBypass ==
    [][ev'.transport > 0 => (ev'.allow = "true" /\ ~CoolingDown)]_vars

\* C9: a GET that finds an entry for its key younger than cache_ttl
\* returns that entry's payload without a transport call (the transport
\* was invoked once, by the GET that stored it); a GET that finds the
\* entry expired invokes the transport again.
C9_CacheIdempotence ==
    (method = "GET" /\ allowed)
        => /\ fresh # None
                => (pc = "done" /\ tries = 0 /\ result = Ok(fresh))
           /\ (stale /\ pc = "done") => tries >= 1

\* C10: a GET that goes to the transport with an entry for its key in the
\* cache carries the entry's validators (If-None-Match = etag,
\* If-Modified-Since = last_modified); a 304 answer ends the call with the
\* entry's payload, with no further attempt and the cache left as it was.
C10_ConditionalRevalidation ==
    [][/\ (ev'.op = "begin" /\ pc' = "attempt" /\ cache_key' \in DOMAIN cache)
            => /\ headers'.if_none_match = cache[cache_key'].etag
               /\ headers'.if_modified_since = cache[cache_key'].last_modified
       /\ (ev'.op = "attempt" /\ ev'.status = "304"
             /\ cache_key \in DOMAIN cache)
            => /\ pc' = "done"
               /\ result' = Ok(cache[cache_key].data)
               /\ cache' = cache]_vars

\* an expired entry with an ETag, revalidated by a 304
C10_Witness ==
    /\ ev.op = "attempt"
    /\ ev.status = "304"
    /\ stale
    /\ headers.if_none_match = "etag1"
    /\ cache_key \in DOMAIN cache
    /\ result = Ok(cache[cache_key].data)
    /\ tries = 1

\* C11: a 304 answer refreshes the timestamp of the cache entry of its key
\* and nothing else in it, so that the entry is fresh (younger than
\* cache_ttl) when the call returns and the next GET of the key within
\* cache_ttl is served from it.
C11_NotModifiedRefreshes ==
    [][(ev'.op = "attempt" /\ ev'.status = "304"
        /\ cache_key \in DOMAIN cache)
          => /\ cache_key \in DOMAIN cache'
             /\ cache'[cache_key].data = cache[cache_key].data
             /\ cache'[cache_key].etag = cache[cache_key].etag
             /\ cache'[cache_key].last_modified = cache[cache_key].last_modified
             /\ now' - cache'[cache_key].timestamp < Sec(cache_ttl)
             /\ GetCachedResponse(cache', cache_key, now')
                   = cache[cache_key].data]_vars

\* C12: a cache lookup that finds an entry at least cache_ttl old evicts
\* it: after the lookup the cache has no entry for the key.
C12_ExpiredEvicted ==
    [][(ev'.op = "begin" /\ allowed' /\ stale')
          => cache_key' \notin DOMAIN cache']_vars

C14_HitSkipsRateLimiter ==
    [][(ev'.op = "begin" /\ method' = "GET" /\ allowed'
        /\ fresh' \notin {None, "empty"})
          => /\ pc' = "done"
             /\ result' = Ok(fresh')
             /\ ev'.transport = 0
             /\ tries' = 0
             /\ request_timestamps' = request_timestamps
             /\ response_times' = response_times
             /\ requests_per_second' = requests_per_second
             /\ min_request_interval' = min_request_interval
             /\ issued' = issued
             /\ now' = now]_vars

C14_Witness ==
    /\ ev.op = "begin"
    /\ method = "GET"
    /\ fresh = "p1"
    /\ result = Ok("p1")
    /\ tries = 0
    /\ request_timestamps # <<>>
    /\ response_times # <<>>

\* C15: burst bound.  At most burst_limit of the timestamps recorded by
\* _wait_for_rate_limit lie in the trailing interval
\* [t - request_window, t] of any time t (it suffices to look at the
\* times t at which a timestamp is recorded).
C15_BurstBound ==
    Cardinality({i \in 1..Len(issued) :
                   Last(issued) - issued[i] <= Sec(request_window)})
        <= burst_limit

\* C16: minimum spacing.  The two timestamps recorded last are at least
\* min_request_interval apart (the interval in force since the later
\* call), whether or not the burst check waited and whether or not the
\* older one is still in the window.
C16_MinimumSpacing ==
    Len(issued) >= 2
        => issued[Len(issued)] - issued[Len(issued) - 1]
              >= min_request_interval

\* the later call changed the rate, and the older timestamp had been
\* trimmed from the window
C16_Witness ==
    /\ Len(issued) >= 2
    /\ request_timestamps = <<Last(issued)>>
    /\ evald
    /\ requests_per_second # Sec(requests_per_second_init)
    /\ issued[Len(issued)] - issued[Len(issued) - 1] >= min_request_interval

\* the later call waited for the interval to pass
C16_WitnessWaited ==
    /\ Len(request_timestamps) >= 2
    /\ Len(issued) >= 2
    /\ issued[Len(issued)] - issued[Len(issued) - 1] = min_request_interval

\* The rate stays between min_rate and max_rate, and the interval is its
\* inverse.
RateInRange ==
    /\ requests_per_second >= Sec(min_rate)
    /\ requests_per_second <= Sec(max_rate)
    /\ min_request_interval = (1000 * 1000) \div requests_per_second

\* C17: the adaptive rule.  A call of _wait_for_rate_limit that evaluates
\* the rule sets the rate to max(min_rate, 0.7 * rate) when the mean of the
\* recorded latencies exceeds rate_adjustment_threshold, to
\* min(max_rate, 1.1 * rate) when the mean is below half the threshold, and
\* leaves it otherwise; a call that does not evaluate it leaves the rate;
\* min_request_interval is 1/rate and min_rate <= rate <= max_rate in
\* every state.
C17_AdaptiveRule ==
    [][/\ RateInRange
       /\ RateInRange'
       /\ (ev'.op = "attempt" /\ evald')
             => requests_per_second' =
                  IF Sum(response_times)
                       > Sec(rate_adjustment_threshold) * Len(response_times)
                  THEN Max(Sec(min_rate), (requests_per_second * 7) \div 10)
                  ELSE IF 2 * Sum(response_times)
                            < Sec(rate_adjustment_threshold)
                                 * Len(response_times)
                  THEN Min(Sec(max_rate), (requests_per_second * 11) \div 10)
                  ELSE requests_per_second
       /\ ~(ev'.op = "attempt" /\ evald')
             => requests_per_second' = requests_per_second]_vars

\* the rule has taken the rate to max_rate and then, under slow answers,
\* down to min_rate
C17_Witness ==
    /\ evald
    /\ requests_per_second = Sec(min_rate)
    /\ min_request_interval = Sec(1)
    /\ \E i \in 1..Len(response_times) :
          response_times[i] < Sec(rate_adjustment_threshold)
    /\ calls > 20

\* C18: the adaptive rule is evaluated at most once per
\* rate_adjustment_interval, whether or not the evaluation changed the
\* rate, and not at all while there is no latency sample (the rate is then
\* left unchanged).
C18_EvaluatedOncePerInterval ==
    [][/\ (ev'.op = "attempt" /\ evald' /\ lastEval # NoTime)
             => lastEval' - lastEval >= Sec(rate_adjustment_interval)
       /\ (ev'.op = "attempt" /\ response_times = <<>>)
             => (~evald' /\ requests_per_second' = requests_per_second)]_vars

C20_RateLimitedTerminates ==
    /\ (resps # <<>> /\ AllAre(resps, "429"))
          => /\ tries <= max_retries
             /\ tries < max_retries => pc = "attempt"
             /\ tries = max_retries
                   => (pc = "done" /\ result = Err("MaxRetriesNoError"))
    /\ (pc = "done" /\ resps # <<>> /\ Last(resps) = "429")
          => (tries = max_retries /\ result.kind = "error")

C20_Witness ==
    /\ resps = <<"429", "429", "429">>
    /\ pc = "done"
    /\ result = Err("MaxRetriesNoError")
    /\ error_count = 0

\* --------------------------------------------------------------- batch
\* C21: when batch_get returns, its list has one slot per descriptor, in
\* the order of the descriptors: the payload where the item succeeded and
\* an error value where it failed.
C21_BatchAligned ==
    ev.op = "batch_end"
        => /\ Len(batch_result) = Len(batch_slots)
           /\ \A i \in 1..Len(batch_slots) :
                 i <= Len(batch_result)
                    => batch_result[i] = batch_slots[i]

\* C22: a batch of more than one descriptor never has all of its transport
\* calls in flight together, as every chunk size below the number of
\* descriptors requires.
C22_ChunkedInFlight ==
    Len(batch_slots) > 1 => InFlight < Len(batch_slots)

\* C23: the step that issues the transport calls of a batch passes the
\* rate limiter: it records issue timestamps in request_timestamps.
C23_BatchRateLimited ==
    [][(ev'.op = "batch" /\ ev'.transport > 0)
          => /\ request_timestamps' # request_timestamps
             /\ issued' # issued]_vars

\* C24: the session exists only while a batch is running: whenever
\* batch_get has returned or raised, async_session is None.
C24_SessionScoped ==
    /\ pc # "batch" => async_session = None
    /\ pc = "batch" => async_session = "session"

\* a batch of three that returned with its second item failed
C24_Witness ==
    /\ ev.op = "batch_end"
    /\ batch_slots = <<"p1", "fail", "p2">>
    /\ pc = "done"
    /\ async_session = None

\* ------------------------------------------------------------- threads
\* C25: with two threads calling _make_request, any two recorded issue
\* timestamps, from whichever threads, are at least min_request_interval
\* apart.
C25_SpacingUnderThreads ==
    \A i, j \in 1..Len(issued) :
        i < j => issued[j] - issued[i] >= min_request_interval

\* --------------------------------------------------------- persistence
\* C26: with no timer firing, get_latest_state returns exactly the state
\* passed to the most recent save_state call, and None when nothing was
\* ever saved.
C26_RoundTrip ==
    ev.op = "load" => loaded = saved

\* C27: a save_state call whose state hashes like the state saved last
\* inserts no row and leaves rows and last_hash as they were; any other
\* call appends exactly one row, holding that state.
C27_HashDeduplication ==
    [][ev'.op = "save"
          => IF saved # None /\ ComputeHash(ev'.payload) = ComputeHash(saved)
             THEN rows' = rows /\ last_hash' = last_hash
             ELSE /\ Len(rows') = Len(rows) + 1
                  /\ SubSeq(rows', 1, Len(rows)) = rows
                  /\ Last(rows').state_hash = ComputeHash(ev'.payload)
                  /\ JsonLoads(Last(rows').state_data)
                        = JsonLoads(JsonDumps(ev'.payload))
                  /\ last_hash' = ComputeHash(ev'.payload)]_vars

\* after two rows were stored, a state equal in hash to the last one
\* (the list form after the tuple form) was passed and skipped
C27_Witness ==
    /\ ev.op = "save"
    /\ ev.status = "skipped"
    /\ ev.payload = "L"
    /\ saved = "L"
    /\ Len(rows) = 2
    /\ last_hash = ComputeHash("T")

\* C28: with the timer firing at any moment, once the application has
\* saved a state get_latest_state returns the state of its most recent
\* completed save_state call.
C28_TimerPreservesLatest ==
    (ev.op = "load" /\ saved # None) => loaded = saved

\* ------------------------------------------------- breaker, continued
\* C29: no attempt of _make_request issues a transport call while the
\* breaker is OPEN; once a failure of the call has opened the breaker the
\* remaining attempts of that call issue none.
C29_NoAttemptWhileOpen ==
    [][(ev'.op = "attempt" /\ circuit_state = "OPEN")
          => ev'.transport = 0]_vars

\* C30: a failure of the raw make_request changes neither circuit_state
\* nor the error count and the time of the last error, which decide the
\* breaker's transitions.
C30_BookkeepingOnly ==
    [][(ev'.op = "raw" /\ ev'.status # "200")
          => /\ circuit_state' = circuit_state
             /\ error_count' = error_count
             /\ last_error_time' = last_error_time]_vars

\* C31: a 304 answer is recorded as a success by the breaker: in
\* HALF_OPEN it counts toward success_threshold, in CLOSED it decrements
\* the error counter.
C31_NotModifiedIsSuccess ==
    [][(ev'.op = "attempt" /\ ev'.status = "304")
          => /\ ev'.record = "success"
             /\ circuit_state = "HALF_OPEN"
                   => success_count' = success_count + 1
             /\ circuit_state = "CLOSED"
                   => error_count' = Max(0, error_count - 1)]_vars

\* C32: every transport attempt, whatever its outcome, appends exactly
\* one observation to the latency sample response_times (the oldest is
\* evicted at capacity).
C32_LatencyPerAttempt ==
    [][(ev'.op = "attempt" /\ ev'.transport > 0)
          => /\ response_times' # <<>>
             /\ response_times' =
                   DequeAppend(response_times, Last(response_times'),
                               response_times_maxlen)]_vars

C34_BackoffSchedule ==
    [][(ev'.op = "attempt" /\ ev'.record = "failure")
          => IF pc' = "attempt"
             THEN now' - last_error_time' >= Sec(base_delay) * (2 ^ attempt')
             ELSE now' = last_error_time']_vars

\* C35: once stop() has returned no periodic-save timer is pending, also
\* when stop() was called while _periodic_save was executing.
C35_StopIsFinal ==
    stopped => ~timer_armed

\* -------------------------------------------------------------- trader
\* C36: a cycle that starts when more than 20% of the transport calls
\* made so far have failed returns paused_high_errors.
C36_PausedOnHighErrors ==
    [][(ev'.op = "cycle" /\ failed * 100 > 20 * sent)
          => cycle_status' = "paused_high_errors"]_vars

\* ------------------------------------------------- breaker invariants
\* C37: while the breaker is OPEN or HALF_OPEN the error counter is at
\* least error_threshold.
C37_CounterAboveThreshold ==
    circuit_state \in {"OPEN", "HALF_OPEN"} => error_count >= error_threshold

\* C38: a payload returned by _make_request is the body the transport
\* delivered in this call, or the body held by the cache for the key of
\* the call; the cache holds only bodies the transport delivered.  A 304
\* answer for a key without a cache entry returns no payload.
C38_NoFabricatedPayload ==
    [][/\ (ev'.op \in {"begin", "attempt"} /\ result'.kind = "ok")
            => \/ ev'.status = "200" /\ result'.data = ev'.payload
               \/ /\ cache_key' \in DOMAIN cache
                  /\ result'.data = cache[cache_key'].data
       /\ (ev'.op = "attempt" /\ cache' # cache)
            => /\ ev'.status = "200"
               /\ cache'[cache_key].data = ev'.payload]_vars

\* C39: once the breaker is OPEN, with no further failure, the cool-down
\* passing and the caller going on with requests answered 200, the
\* breaker reaches CLOSED, having counted exactly success_threshold
\* successes in HALF_OPEN.
C39_BreakerRecovers ==
    (circuit_state = "OPEN")
        ~> (circuit_state = "CLOSED" /\ hoSucc = success_threshold)

\* the breaker opened in the middle of a call, was left OPEN with a
\* lowered counter by the success of that call, and closed again
C39_Witness ==
    /\ circuit_state = "CLOSED"
    /\ ev.op = "attempt"
    /\ ev.was = "HALF_OPEN"
    /\ hoSucc = success_threshold
    /\ calls = 2 + success_threshold
    /\ sent = error_threshold + 1 + success_threshold
    /\ failed = error_threshold

\* C40: at most one thread is inside a cycle of _run_loop, and no thread
\* that was alive when stop() was called begins another cycle.
C40_SingleLoop ==
    /\ Cardinality({i \in 1..MaxLoops : lpc[i] = "cycle"}) <= 1
    /\ late = {}
====
